---- MODULE Spec2Model ----
(***************************************************************************)
(* Model of run_linter.py: lint_pine_script (one POST to the lint service, *)
(* response inspection, exception mapping) and the command-line entry.     *)
(* Text is a sequence of one-character strings; a Python value is a record *)
(* [t |-> type name, v |-> payload].                                       *)
(***************************************************************************)
EXTENDS Integers, Sequences, FiniteSets, TLC

VARIABLES mode, pc, argv, script_content, user_agent, inflight, nreq,
          sent, got, decoded, ret, outcome, stderr, stdout, prev

vars == <<mode, pc, argv, script_content, user_agent, inflight, nreq,
          sent, got, decoded, ret, outcome, stderr, stdout, prev>>

\* ---------------------------------------------------------------- bounds
MaxAttempts == 3
LongBodyLen == 201

\* ------------------------------------------------------ program constants
LINT_URL == "https://pine-facade.tradingview.com/pine-facade/translate_light?user_name=Guest&v=3"
DEFAULT_USER_AGENT == "Mozilla/5.0 ... PineLinterMini/1.0"
RequestTimeout == 20
TextLimit == 200
JsonIndent == 4

\* ------------------------------------------------------------ Python data
PyNone == [t |-> "NoneType", v |-> <<>>]
PyStr(chars) == [t |-> "str", v |-> chars]
PyInt(digits) == [t |-> "int", v |-> digits]
PyDict(items) == [t |-> "dict", v |-> items]
PyList(items) == [t |-> "list", v |-> items]
PyBool(b) == [t |-> "bool", v |-> IF b THEN <<"1">> ELSE <<>>]

IsStr(x) == x.t = "str"

\* bool(x): None, False, 0, "", [] and {} are falsy
AllZero(d) == \A i \in 1..Len(d) : d[i] = "0"
Truthy(x) ==
    CASE x.t = "NoneType" -> FALSE
      [] x.t = "int" -> ~AllZero(x.v)
      [] OTHER -> Len(x.v) > 0

Whitespace == {" ", "\t", "\n", "\r"}

RECURSIVE LStrip(_)
LStrip(s) == IF s # <<>> /\ Head(s) \in Whitespace THEN LStrip(Tail(s)) ELSE s

RECURSIVE RStrip(_)
RStrip(s) ==
    IF s # <<>> /\ s[Len(s)] \in Whitespace
    THEN RStrip(SubSeq(s, 1, Len(s) - 1)) ELSE s

\* variant: the emptiness test without trimming
NoStrip(s) == s

\* str.strip()
Strip(s) == RStrip(LStrip(s))

\* s[:n]
Prefix(s, n) == SubSeq(s, 1, IF Len(s) < n THEN Len(s) ELSE n)

\* needle in hay (contiguous sub-sequence)
Contains(hay, needle) ==
    \E i \in 0..Len(hay) :
        /\ i + Len(needle) <= Len(hay)
        /\ SubSeq(hay, i + 1, i + Len(needle)) = needle

\* ------------------------------------------------------------ JSON decode
Digits == {"0", "1", "2", "3", "4", "5", "6", "7", "8", "9"}
ParseFail == [ok |-> FALSE, val |-> PyNone, next |-> 0]
ParseOk(val, next) == [ok |-> TRUE, val |-> val, next |-> next]

RECURSIVE SkipWs(_, _)
SkipWs(s, i) == IF i <= Len(s) /\ s[i] \in Whitespace THEN SkipWs(s, i + 1) ELSE i

Matches(s, i, lit) == i + Len(lit) - 1 <= Len(s) /\ SubSeq(s, i, i + Len(lit) - 1) = lit

RECURSIVE EndOfDigits(_, _)
EndOfDigits(s, i) == IF i <= Len(s) /\ s[i] \in Digits THEN EndOfDigits(s, i + 1) ELSE i

\* index of the closing quote of a string whose first character is at i, 0 if none
RECURSIVE ClosingQuote(_, _)
ClosingQuote(s, i) ==
    IF i > Len(s) \/ s[i] = "\\" THEN 0
    ELSE IF s[i] = "\"" THEN i
    ELSE ClosingQuote(s, i + 1)

StringUpTo(s, i, q) ==
    IF q = 0 THEN ParseFail ELSE ParseOk(PyStr(SubSeq(s, i + 1, q - 1)), q + 1)

ParseString(s, i) ==
    IF i <= Len(s) /\ s[i] = "\""
    THEN StringUpTo(s, i, ClosingQuote(s, i + 1))
    ELSE ParseFail

NumberUpTo(s, i, e) == ParseOk(PyInt(SubSeq(s, i, e - 1)), e)

RECURSIVE ParseValue(_, _)
RECURSIVE ParseElems(_, _, _)
RECURSIVE ParseMembers(_, _, _)

\* after a value of a list: "," and the next value, or "]"
ElemsSep(s, j, items) ==
    IF j > Len(s) THEN ParseFail
    ELSE IF s[j] = "]" THEN ParseOk(PyList(items), j + 1)
    ELSE IF s[j] = "," THEN ParseElems(s, j + 1, items)
    ELSE ParseFail

ElemsValue(s, r, acc) ==
    IF ~r.ok THEN ParseFail ELSE ElemsSep(s, SkipWs(s, r.next), Append(acc, r.val))

ParseElems(s, i, acc) == ElemsValue(s, ParseValue(s, SkipWs(s, i)), acc)

\* after a member of an object: "," and the next member, or "}"
MembersSep(s, j, items) ==
    IF j > Len(s) THEN ParseFail
    ELSE IF s[j] = "}" THEN ParseOk(PyDict(items), j + 1)
    ELSE IF s[j] = "," THEN ParseMembers(s, j + 1, items)
    ELSE ParseFail

MembersValue(s, k, r, acc) ==
    IF ~r.ok THEN ParseFail
    ELSE MembersSep(s, SkipWs(s, r.next), Append(acc, [key |-> k.val.v, value |-> r.val]))

MembersColon(s, k, c, acc) ==
    IF c > Len(s) \/ s[c] # ":" THEN ParseFail
    ELSE MembersValue(s, k, ParseValue(s, SkipWs(s, c + 1)), acc)

MembersKey(s, k, acc) ==
    IF ~k.ok THEN ParseFail ELSE MembersColon(s, k, SkipWs(s, k.next), acc)

\* members of an object: string ":" value
ParseMembers(s, i, acc) == MembersKey(s, ParseString(s, SkipWs(s, i)), acc)

ListFrom(s, i, j) ==
    IF j <= Len(s) /\ s[j] = "]" THEN ParseOk(PyList(<<>>), j + 1)
    ELSE ParseElems(s, i + 1, <<>>)

DictFrom(s, i, j) ==
    IF j <= Len(s) /\ s[j] = "}" THEN ParseOk(PyDict(<<>>), j + 1)
    ELSE ParseMembers(s, i + 1, <<>>)

ParseValue(s, i) ==
    IF i > Len(s) THEN ParseFail
    ELSE IF Matches(s, i, <<"n", "u", "l", "l">>) THEN ParseOk(PyNone, i + 4)
    ELSE IF Matches(s, i, <<"t", "r", "u", "e">>) THEN ParseOk(PyBool(TRUE), i + 4)
    ELSE IF Matches(s, i, <<"f", "a", "l", "s", "e">>) THEN ParseOk(PyBool(FALSE), i + 5)
    ELSE IF s[i] \in Digits THEN NumberUpTo(s, i, EndOfDigits(s, i))
    ELSE IF s[i] = "\"" THEN ParseString(s, i)
    ELSE IF s[i] = "[" THEN ListFrom(s, i, SkipWs(s, i + 1))
    ELSE IF s[i] = "{" THEN DictFrom(s, i, SkipWs(s, i + 1))
    ELSE ParseFail

WholeText(text, r) ==
    IF r.ok /\ SkipWs(text, r.next) = Len(text) + 1 THEN r ELSE ParseFail

\* json.loads(text): one value, surrounded by optional whitespace
JsonLoads(text) == WholeText(text, ParseValue(text, SkipWs(text, 1)))

\* --------------------------------------------------- transport and inputs
Some(x) == <<x>>
Nothing == <<>>

APPLICATION_JSON == <<"application/json">>
CT_JSON_UTF8 == <<"application/json", ";", " ", "charset=utf-8">>
CT_HTML == <<"text/html">>

Header(name, value) == [name |-> name, value |-> value]

\* response.headers.get(name, default)
HeadersGet(headers, name, default) ==
    IF \E i \in 1..Len(headers) : headers[i].name = name
    THEN headers[CHOOSE i \in 1..Len(headers) : headers[i].name = name].value
    ELSE default

\* what the f-string prints for response.headers.get('Content-Type')
FormatContentType(headers) == HeadersGet(headers, "Content-Type", <<"None">>)

BodyResultOk == <<"{", "\"", "r", "\"", ":", " ", "\"", "o", "k", "\"", "}">>
BodyEmptyDict == <<"{", "}">>
BodyNull == <<"n", "u", "l", "l">>
BodyNotJson == <<"n", "o", "t", " ", "j", "s", "o", "n">>
BodyLong == [i \in 1..LongBodyLen |-> "x"]

Bodies == {BodyResultOk, BodyEmptyDict, BodyNull, BodyNotJson, BodyLong}
Statuses == {200, 304, 404, 500}
HeaderSets == {<<>>, <<Header("Content-Type", APPLICATION_JSON)>>,
               <<Header("Content-Type", CT_JSON_UTF8)>>,
               <<Header("Content-Type", CT_HTML)>>}

\* what requests.post can do: raise, or hand back a response
PostRaises == {"ConnectionError", "Timeout", "ValueError"}
Responses == [raises : {""}, status : Statuses, headers : HeaderSets, text : Bodies]
Failures == [raises : PostRaises, status : {0}, headers : {<<>>}, text : {<<>>}]
TransportOutcomes == Responses \cup Failures

ValidScript == <<"s", "(", ")">>
ScriptInputs == {PyNone, PyInt(<<"4", "2">>), PyStr(<<>>), PyStr(<<" ", "\n">>),
                 PyStr(ValidScript)}
UserAgents == {DEFAULT_USER_AGENT, "custom-agent/1.0"}

\* reading the file named on the command line
FileContents == {<<>>, <<"\t", " ">>, ValidScript}
FileReads == [raises : {""}, text : FileContents]
                \cup [raises : {"FileNotFoundError", "PermissionError"}, text : {<<>>}]
ArgVectors == {<<>>, <<"script.pine">>}

\* ------------------------------------------------------------- exceptions
\* direct base class of each exception class that can occur
BaseOf(cls) ==
    CASE cls \in {"ConnectionError", "Timeout", "HTTPError", "JSONDecodeError"} -> "RequestException"
      [] cls = "RequestException" -> "OSError"
      [] cls \in {"FileNotFoundError", "PermissionError"} -> "OSError"
      [] cls \in {"OSError", "ValueError"} -> "Exception"
      [] OTHER -> "BaseException"

RECURSIVE IsInstance(_, _)
IsInstance(cls, base) ==
    IF cls = base THEN TRUE
    ELSE IF cls = "BaseException" THEN FALSE
    ELSE IsInstance(BaseOf(cls), base)

\* ------------------------------------------------------- lint_pine_script
Diag(kind, msg, status, ctype, text) ==
    [kind |-> kind, msg |-> msg, status |-> status, ctype |-> ctype, text |-> text]

\* variant: the identity header is taken from what the previous call left behind
HeadersLeaky(ua) ==
    [UserAgent |-> IF prev = <<>> THEN ua ELSE prev[1].user_agent,
     ContentType |-> "application/x-www-form-urlencoded;charset=UTF-8",
     Accept |-> "application/json, text/plain, */*",
     Origin |-> "https://www.tradingview.com",
     Referer |-> "https://www.tradingview.com/"]

Headers(ua) ==
    [UserAgent |-> ua,
     ContentType |-> "application/x-www-form-urlencoded;charset=UTF-8",
     Accept |-> "application/json, text/plain, */*",
     Origin |-> "https://www.tradingview.com",
     Referer |-> "https://www.tradingview.com/"]

Request(script, ua) ==
    [url |-> LINT_URL, headers |-> Headers(ua), data |-> [source |-> script.v],
     timeout |-> RequestTimeout]

\* the two input checks; <<>> when the input passes
InputDiag(script) ==
    IF ~IsStr(script)
    THEN <<Diag("InvalidInput", "Error: script_content must be a string.", 0, <<>>, <<>>)>>
    ELSE IF Strip(script.v) = <<>>
    THEN <<Diag("InvalidInput", "Error: script_content cannot be empty.", 0, <<>>, <<>>)>>
    ELSE <<>>

\* variant: only server errors raise
RaisesForServerErrorOnly(status) == status >= 500 /\ status < 600

\* response.raise_for_status()
RaisesForStatus(status) == status >= 400 /\ status < 600

\* variant: the header compared for equality instead of containment
IsJsonContentTypeExact(headers) ==
    HeadersGet(headers, "Content-Type", <<>>) = APPLICATION_JSON

\* variant: a missing header defaults to the JSON type
IsJsonContentTypeByDefault(headers) ==
    Contains(HeadersGet(headers, "Content-Type", APPLICATION_JSON), APPLICATION_JSON)

IsJsonContentType(headers) ==
    Contains(HeadersGet(headers, "Content-Type", <<>>), APPLICATION_JSON)

Step(raised, returned, value, diags, didDecode) ==
    [raised |-> raised, returned |-> returned, value |-> value, diags |-> diags,
     decoded |-> didDecode]

\* return response.json()
ReturnJson(r) ==
    IF r.ok THEN Step("", TRUE, r.val, <<>>, TRUE)
    ELSE Step("JSONDecodeError", FALSE, PyNone, <<>>, TRUE)

\* the body of the try block, given what requests.post did
TryBody(o) ==
    IF o.raises # "" THEN Step(o.raises, FALSE, PyNone, <<>>, FALSE)
    ELSE IF RaisesForStatus(o.status) THEN Step("HTTPError", FALSE, PyNone, <<>>, FALSE)
    ELSE IF IsJsonContentType(o.headers) THEN ReturnJson(JsonLoads(o.text))
    ELSE Step("", TRUE, PyNone,
              <<Diag("UnexpectedContentType", "Error: Unexpected content type",
                     0, FormatContentType(o.headers), Prefix(o.text, TextLimit))>>, FALSE)

\* variant: the general request clause placed before the decode clause
ExceptClausesGeneralFirst == <<"HTTPError", "RequestException", "JSONDecodeError", "Exception">>

\* variant: no catch-all clause
ExceptClausesNoCatchAll == <<"HTTPError", "JSONDecodeError", "RequestException">>

\* the except clauses, in source order
ExceptClauses == <<"HTTPError", "JSONDecodeError", "RequestException", "Exception">>

\* the clause that catches an exception of class cls; 0 when none does
CatchingClause(cls) ==
    IF \E i \in 1..Len(ExceptClauses) : IsInstance(cls, ExceptClauses[i])
    THEN CHOOSE i \in 1..Len(ExceptClauses) :
            /\ IsInstance(cls, ExceptClauses[i])
            /\ \A j \in 1..(i - 1) : ~IsInstance(cls, ExceptClauses[j])
    ELSE 0

\* what the clause prints
ClauseDiag(clause, cls, o) ==
    CASE clause = "HTTPError" ->
            Diag("HttpStatusError", "HTTP error during linting", o.status, <<>>,
                 Prefix(o.text, TextLimit))
      [] clause = "JSONDecodeError" ->
            Diag("MalformedResponse", "JSON decode error during linting", 0, <<>>,
                 Prefix(o.text, TextLimit))
      [] clause = "RequestException" ->
            Diag("TransportError", "Request exception during linting", 0, <<>>, <<>>)
      [] OTHER ->
            Diag("UnknownError", "An unexpected error occurred", 0, <<>>, <<>>)

\* variant: a transport failure is retried
AfterClauseRetry(clause) == IF clause = "RequestException" THEN "post" ELSE "returned"

\* where control goes when an except clause has run: the final return None
AfterClause(clause) == "returned"

\* the except clause c (0: none) runs for the exception the try block raised
Caught(t, c, o) ==
    IF c = 0
    THEN [pc |-> "raised", raised |-> t.raised, value |-> PyNone, diags |-> <<>>,
          decoded |-> t.decoded, success |-> FALSE]
    ELSE [pc |-> AfterClause(ExceptClauses[c]), raised |-> "", value |-> PyNone,
          diags |-> <<ClauseDiag(ExceptClauses[c], t.raised, o)>>,
          decoded |-> t.decoded, success |-> FALSE]

\* the try block ended with t: a return, or an exception for the clauses
AfterTry(t, o) ==
    IF t.raised = ""
    THEN [pc |-> "returned", raised |-> "", value |-> t.value, diags |-> t.diags,
          decoded |-> t.decoded, success |-> t.diags = <<>>]
    ELSE Caught(t, CatchingClause(t.raised), o)

\* everything from the response (or failure) of requests.post to the return
Finish(o) == AfterTry(TryBody(o), o)

\* ------------------------------------------------------------------ state
Init ==
    /\ mode = "none"
    /\ pc = "idle"
    /\ argv = <<>>
    /\ script_content = PyNone
    /\ user_agent = DEFAULT_USER_AGENT
    /\ inflight = <<>>
    /\ nreq = 0
    /\ sent = Nothing
    /\ got = Nothing
    /\ decoded = FALSE
    /\ ret = PyNone
    /\ outcome = "Pending"
    /\ stderr = <<>>
    /\ stdout = <<>>
    /\ prev = Nothing

FreshCall ==
    /\ inflight' = <<>>
    /\ nreq' = 0
    /\ sent' = Nothing
    /\ got' = Nothing
    /\ decoded' = FALSE
    /\ ret' = PyNone
    /\ outcome' = "Pending"
    /\ stdout' = <<>>

\* a caller invokes lint_pine_script(s, u) directly
CallLint(s, u) ==
    /\ pc = "idle"
    /\ mode' = "lib"
    /\ pc' = "lint"
    /\ argv' = <<>>
    /\ script_content' = s
    /\ user_agent' = u
    /\ stderr' = <<>>
    /\ FreshCall
    /\ UNCHANGED prev

\* the script is run as a program: arguments, then the file is read
Main(args, f) ==
    /\ pc = "idle"
    /\ mode' = "cli"
    /\ argv' = args
    /\ prev' = Nothing
    /\ user_agent' = DEFAULT_USER_AGENT
    /\ FreshCall
    /\ IF Len(args) = 0
       THEN /\ stderr' = <<Diag("Usage", "Usage: python run_linter.py <path_to_pine_script_file>", 0, <<>>, <<>>)>>
            /\ script_content' = PyNone
            /\ pc' = "exit"
       ELSE IF f.raises = ""
       THEN /\ stderr' = <<>>
            /\ script_content' = PyStr(f.text)
            /\ pc' = "lint"
       ELSE /\ stderr' = <<Diag(IF f.raises = "FileNotFoundError" THEN "FileNotFound" ELSE "FileError",
                                IF f.raises = "FileNotFoundError" THEN "Error: File not found at"
                                ELSE "An error occurred while processing the file", 0, <<>>, <<>>)>>
            /\ script_content' = PyNone
            /\ pc' = "exit"

\* the input checks and the construction of the request
Validate ==
    /\ pc = "lint"
    /\ IF InputDiag(script_content) # <<>>
       THEN /\ stderr' = stderr \o InputDiag(script_content)
            /\ ret' = PyNone
            /\ outcome' = "Failed"
            /\ pc' = "returned"
       ELSE /\ pc' = "post"
            /\ UNCHANGED <<stderr, ret, outcome>>
    /\ UNCHANGED <<mode, argv, script_content, user_agent, inflight, nreq, sent, got,
                   decoded, stdout, prev>>

\* requests.post sends the request and blocks
Post ==
    /\ pc = "post"
    /\ nreq < MaxAttempts
    /\ inflight' = Append(inflight, Request(script_content, user_agent))
    /\ sent' = Some(Request(script_content, user_agent))
    /\ nreq' = nreq + 1
    /\ pc' = "await"
    /\ UNCHANGED <<mode, argv, script_content, user_agent, got, decoded, ret, outcome,
                   stderr, stdout, prev>>

\* the call ends as r says
Land(r) ==
    /\ decoded' = r.decoded
    /\ stderr' = stderr \o r.diags
    /\ ret' = r.value
    /\ outcome' = IF r.pc = "raised" THEN "Raised"
                  ELSE IF r.pc = "returned"
                       THEN (IF r.success THEN "Succeeded" ELSE "Failed")
                       ELSE "Pending"
    /\ pc' = IF r.pc = "raised"
             THEN (IF mode = "lib" THEN "crashed" ELSE "returned")
             ELSE r.pc

\* requests.post comes back (response or exception); the rest of the call runs
Receive(o) ==
    /\ pc = "await"
    /\ inflight # <<>>
    /\ inflight' = Tail(inflight)
    /\ got' = Some(o)
    /\ Land(Finish(o))
    /\ UNCHANGED <<mode, argv, script_content, user_agent, nreq, sent, stdout, prev>>

\* the direct caller gets the value; nothing of the call is kept by the module
LibReturn ==
    /\ pc = "returned"
    /\ mode = "lib"
    /\ prev' = Some([script_content |-> script_content, user_agent |-> user_agent,
                     sent |-> sent, got |-> got, ret |-> ret, stderr |-> stderr])
    /\ pc' = "idle"
    /\ UNCHANGED <<mode, argv, script_content, user_agent, inflight, nreq, sent, got,
                   decoded, ret, outcome, stderr, stdout>>

\* json.dumps(obj, indent=4) written to standard output
Dumped(obj) == [fn |-> "json.dumps", indent |-> JsonIndent, obj |-> obj]

\* main after the lint call: print when the result is truthy
MainResult ==
    /\ pc = "returned"
    /\ mode = "cli"
    /\ IF outcome = "Raised"
       THEN /\ stderr' = Append(stderr, Diag("FileError", "An error occurred while processing the file", 0, <<>>, <<>>))
            /\ UNCHANGED stdout
       ELSE /\ stdout' = IF Truthy(ret) THEN Append(stdout, Dumped(ret)) ELSE stdout
            /\ UNCHANGED stderr
    /\ pc' = "exit"
    /\ UNCHANGED <<mode, argv, script_content, user_agent, inflight, nreq, sent, got,
                   decoded, ret, outcome, prev>>

\* the process ends
Exit ==
    /\ pc = "exit"
    /\ pc' = "idle"
    /\ UNCHANGED <<mode, argv, script_content, user_agent, inflight, nreq, sent, got,
                   decoded, ret, outcome, stderr, stdout, prev>>

Next ==
    \/ \E s \in ScriptInputs, u \in UserAgents : CallLint(s, u)
    \/ \E args \in ArgVectors, f \in FileReads : Main(args, f)
    \/ Validate
    \/ Post
    \/ \E o \in TransportOutcomes : Receive(o)
    \/ LibReturn
    \/ MainResult
    \/ Exit

Spec == Init /\ [][Next]_vars

\* ------------------------------------------------------------- properties
Returned == pc = "returned"
GotResponse == got # <<>> /\ got[1].raises = ""
GotFailure == got # <<>> /\ got[1].raises # ""
Status2xx(st) == st >= 200 /\ st <= 299
AllWhitespace(s) == \A i \in 1..Len(s) : s[i] \in Whitespace
InvalidInput(x) == x.t # "str" \/ AllWhitespace(x.v)

\* the header is present and its media type is application/json
DeclaresJson(headers) ==
    \E i \in 1..Len(headers) :
        /\ headers[i].name = "Content-Type"
        /\ headers[i].value # <<>>
        /\ headers[i].value[1] = "application/json"

MinOf(a, b) == IF a < b THEN a ELSE b
\* p is the first 200 characters of text
IsFirst200(p, text) ==
    /\ Len(p) = MinOf(Len(text), 200)
    /\ \A i \in 1..Len(p) : p[i] = text[i]

\* C1: a non-string input, or an empty or whitespace-only string, makes the
\* call return None with one InvalidInput diagnostic, and no request is ever
\* issued for it.
C1_InvalidInputNoRequest ==
    (mode # "none" /\ InvalidInput(script_content)) =>
        /\ nreq = 0 /\ inflight = <<>> /\ sent = <<>> /\ got = <<>>
        /\ pc \notin {"post", "await"}
        /\ Returned => /\ ret = PyNone
                       /\ Len(stderr) = 1
                       /\ stderr[1].kind = "InvalidInput"

\* a non-string call has returned, right after a whitespace-only call did
C1_Witness ==
    /\ Returned /\ mode = "lib"
    /\ script_content.t # "str"
    /\ Len(stderr) = 1 /\ stderr[1].kind = "InvalidInput"
    /\ prev # <<>>
    /\ prev[1].script_content.t = "str"
    /\ prev[1].script_content.v # <<>>
    /\ AllWhitespace(prev[1].script_content.v)
    /\ prev[1].sent = <<>>
    /\ prev[1].ret = PyNone

\* C2: a 2xx response that declares JSON and carries well-formed JSON makes
\* the call return the decoded body, whatever JSON value it is, with no
\* diagnostic.
C2_ReturnsDecodedBody ==
    (/\ Returned /\ GotResponse
     /\ Status2xx(got[1].status)
     /\ DeclaresJson(got[1].headers)
     /\ JsonLoads(got[1].text).ok) =>
        /\ ret = JsonLoads(got[1].text).val
        /\ stderr = <<>>
        /\ outcome = "Succeeded"

\* an empty mapping came back under "application/json; charset=utf-8"
C2_Witness ==
    /\ Returned /\ GotResponse
    /\ got[1].status = 200
    /\ got[1].headers = <<Header("Content-Type", CT_JSON_UTF8)>>
    /\ got[1].text = BodyEmptyDict
    /\ ret = PyDict(<<>>)
    /\ stderr = <<>>

HttpStatusReported ==
    /\ ret = PyNone
    /\ ~decoded
    /\ Len(stderr) = 1
    /\ stderr[1].kind = "HttpStatusError"
    /\ stderr[1].status = got[1].status
    /\ IsFirst200(stderr[1].text, got[1].text)

\* C3 as stated: every response whose status is outside the success range
\* 200..299 gives None and an HttpStatusError diagnostic.
C3_AsStated ==
    (Returned /\ GotResponse /\ ~Status2xx(got[1].status)) => HttpStatusReported

\* C3 amended: every response whose status is in 400..599 gives None and one
\* HttpStatusError diagnostic with the status and the first 200 characters of
\* the body, whatever the content type and body, and the body is not decoded.
C3_ErrorStatusReported ==
    (Returned /\ GotResponse /\ got[1].status >= 400 /\ got[1].status <= 599) =>
        HttpStatusReported

\* a 404 with a JSON header and a well-formed JSON body, after a 500 whose
\* long body was cut to 200 characters
C3_Witness ==
    /\ Returned /\ mode = "lib" /\ GotResponse
    /\ got[1].status = 404
    /\ DeclaresJson(got[1].headers)
    /\ JsonLoads(got[1].text).ok
    /\ stderr[1].kind = "HttpStatusError"
    /\ prev # <<>> /\ prev[1].got # <<>>
    /\ prev[1].got[1].status = 500
    /\ Len(prev[1].got[1].text) > 200
    /\ Len(prev[1].stderr[1].text) = 200

\* C4: a 2xx response whose content type does not declare JSON (a missing
\* header included) gives None and one UnexpectedContentType diagnostic with
\* the declared type and the first 200 characters of the body, and the body
\* is not decoded; a body is decoded only under a JSON content type.
C4_NonJsonNotDecoded ==
    /\ (Returned /\ GotResponse /\ Status2xx(got[1].status) /\ ~DeclaresJson(got[1].headers)) =>
          /\ ret = PyNone
          /\ ~decoded
          /\ Len(stderr) = 1
          /\ stderr[1].kind = "UnexpectedContentType"
          /\ stderr[1].ctype = (IF got[1].headers = <<>> THEN <<"None">>
                                ELSE got[1].headers[1].value)
          /\ IsFirst200(stderr[1].text, got[1].text)
    /\ decoded => (GotResponse /\ DeclaresJson(got[1].headers))

\* a well-formed JSON body without a Content-Type header was not decoded,
\* after a long text/html body was cut to 200 characters
C4_Witness ==
    /\ Returned /\ mode = "lib" /\ GotResponse
    /\ got[1].status = 200
    /\ got[1].headers = <<>>
    /\ got[1].text = BodyResultOk
    /\ ~decoded /\ ret = PyNone
    /\ stderr[1].kind = "UnexpectedContentType"
    /\ prev # <<>> /\ prev[1].got # <<>>
    /\ prev[1].got[1].headers = <<Header("Content-Type", CT_HTML)>>
    /\ prev[1].got[1].status = 200
    /\ Len(prev[1].got[1].text) > 200
    /\ Len(prev[1].stderr[1].text) = 200

\* C5: a 2xx response that declares JSON but whose body does not decode gives
\* None and one MalformedResponse diagnostic with the first 200 characters of
\* the body, never TransportError or UnknownError.
C5_DecodeFailureIsMalformed ==
    (/\ Returned /\ GotResponse
     /\ Status2xx(got[1].status)
     /\ DeclaresJson(got[1].headers)
     /\ ~JsonLoads(got[1].text).ok) =>
        /\ ret = PyNone
        /\ Len(stderr) = 1
        /\ stderr[1].kind = "MalformedResponse"
        /\ stderr[1].kind \notin {"TransportError", "UnknownError"}
        /\ IsFirst200(stderr[1].text, got[1].text)

\* "not json" under a JSON header was tried and failed to decode
C5_Witness ==
    /\ Returned /\ GotResponse
    /\ got[1].status = 200
    /\ got[1].headers = <<Header("Content-Type", APPLICATION_JSON)>>
    /\ got[1].text = BodyNotJson
    /\ decoded
    /\ stderr[1].kind = "MalformedResponse"

C7_AsStated ==
    (pc = "exit") =>
        IF outcome = "Succeeded" THEN stdout = <<Dumped(ret)>> ELSE stdout = <<>>

\* C8: a call issues at most one request, at most one request is in flight,
\* and once the call has failed no further request is issued in it.
C8_SingleRequest ==
    /\ [](nreq <= 1 /\ Len(inflight) <= 1)
    /\ [][outcome = "Failed" => nreq' <= nreq]_vars

\* a call that made its one request has failed on a timeout
C8_Witness ==
    /\ Returned /\ outcome = "Failed"
    /\ nreq = 1 /\ inflight = <<>>
    /\ GotFailure /\ got[1].raises = "Timeout"

\* C9: a call with the same script_content and user_agent as the call before
\* it, against a transport that answers the same request the same way, ends
\* with the same return value and the same diagnostics.
C9_SameCallSameOutcome ==
    (/\ Returned /\ mode = "lib" /\ prev # <<>>
     /\ prev[1].script_content = script_content
     /\ prev[1].user_agent = user_agent
     /\ (prev[1].sent = sent => prev[1].got = got)) =>
        /\ ret = prev[1].ret
        /\ stderr = prev[1].stderr

\* the same valid call was made twice and a request went out both times
C9_Witness ==
    /\ Returned /\ mode = "lib" /\ prev # <<>>
    /\ prev[1].script_content = script_content
    /\ prev[1].user_agent = user_agent
    /\ user_agent # DEFAULT_USER_AGENT
    /\ sent # <<>> /\ prev[1].sent = sent
    /\ GotResponse /\ prev[1].got = got
    /\ ret # PyNone

\* C10 as stated: a call that has returned gave None exactly when it wrote
\* exactly one diagnostic, and a call that gave a result wrote none.
C10_AsStated ==
    Returned =>
        /\ (ret = PyNone) <=> (Len(stderr) = 1)
        /\ (ret # PyNone) => (stderr = <<>>)

====
